---- MODULE Spec2Model ----
(***************************************************************************)
(* bevy_textbox: the section lifecycle (spawn_section_frags with its two   *)
(* chained one-shot systems) and the continue indicator                    *)
(* (update_continue_visibility), modelled from src/src/lib.rs.             *)
(*                                                                         *)
(* Entities are integers: TextBox entities 1 and 2, the Continue          *)
(* children of textbox t are 10*t+1 .. 10*t+k, section entities are        *)
(* SectionBase+1, SectionBase+2, ... in spawn order.  Dangling is an       *)
(* entity reference that names no TextBox.                                 *)
(***************************************************************************)
EXTENDS Integers, Sequences, FiniteSets

\* ---- bounds ------------------------------------------------------------
MaxIndicators == 2
MaxFragments == 2
MaxHostRequests == 2
MaxDeliveries == 2

\* ---- entity names ------------------------------------------------------
Dangling == 0
SectionBase == 100
TextboxIds == {1, 2}
EntityRefs == TextboxIds \cup {Dangling}
ContinueEntity(t, k) == 10 * t + k
SectionEntity(i) == SectionBase + i

\* bevy's Visibility enum, the payload of UpdateContinueVis
Visibility == {"Inherited", "Hidden", "Visible"}

VARIABLES
    textboxes,   \* entities that carry the TextBox component
    children,    \* Children of every textbox, in insertion order
    visibility,  \* Visibility of every entity that carries Continue
    sec,         \* sections in spawn order: components and closure captures
    numFrags,    \* fragments the sequencer has handed out so far
    fragEvents,  \* Events<FragmentEvent<SectionFrag>> not yet read
    visEvents,   \* Events<UpdateContinueVis> not yet read
    endEvents,   \* FragmentEndEvent written so far, in order
    hostSent,    \* UpdateContinueVis written by the host application so far
    aborted,     \* a system panicked: the app is gone
    last         \* the step taken last and what it consumed

vars == <<textboxes, children, visibility, sec, numFrags, fragEvents,
          visEvents, endEvents, hostSent, aborted, last>>

\* ---- helpers -----------------------------------------------------------
Range(s) == {s[i] : i \in DOMAIN s}

RECURSIVE Without(_, _)
Without(s, e) ==
    IF s = <<>> THEN <<>>
    ELSE IF Head(s) = e THEN Without(Tail(s), e)
    ELSE <<Head(s)>> \o Without(Tail(s), e)

RECURSIVE CountOf(_, _)
CountOf(s, e) ==
    IF s = <<>> THEN 0
    ELSE (IF Head(s) = e THEN 1 ELSE 0) + CountOf(Tail(s), e)

Step(op, s, frags, reqs) == [op |-> op, sec |-> s, frags |-> frags, reqs |-> reqs]

\* ---- UpdateContinueVis ---------------------------------------------------
UpdateContinueVis(entity, vis) == [entity |-> entity, visibility |-> vis]

\* ApplyVis with a break after the first Continue child
ApplyVisFirstOnly(vis, event) ==
    IF event.entity \in textboxes
    THEN LET ch == children[event.entity]
             hits == {k \in DOMAIN ch : ch[k] \in DOMAIN vis}
             first == IF hits = {} THEN 0 ELSE CHOOSE k \in hits : \A j \in hits : k <= j
         IN [c \in DOMAIN vis |->
               IF first # 0 /\ c = ch[first] THEN event.visibility ELSE vis[c]]
    ELSE vis

\* ApplyVis without the With<Continue> filter: every child gets the visibility
ApplyVisUnfiltered(vis, event) ==
    IF event.entity \in textboxes
    THEN [c \in DOMAIN vis \cup Range(children[event.entity]) |->
            IF c \in Range(children[event.entity])
            THEN event.visibility
            ELSE vis[c]]
    ELSE vis

\* ApplyVis without the lookup of the textbox's children: every Continue entity
ApplyVisGlobal(vis, event) ==
    IF event.entity \in textboxes
    THEN [c \in DOMAIN vis |-> event.visibility]
    ELSE vis

\* one iteration of the reader loop of update_continue_visibility
ApplyVis(vis, event) ==
    IF event.entity \in textboxes
    THEN [c \in DOMAIN vis |->
            IF c \in Range(children[event.entity])
            THEN event.visibility
            ELSE vis[c]]
    ELSE vis

\* ApplyAll reading the newest request first
RECURSIVE ApplyAllNewestFirst(_, _)
ApplyAllNewestFirst(vis, events) ==
    IF events = <<>> THEN vis
    ELSE ApplyAllNewestFirst(ApplyVis(vis, events[Len(events)]),
                             SubSeq(events, 1, Len(events) - 1))

\* the reader loop of update_continue_visibility over the unread events
RECURSIVE ApplyAll(_, _)
ApplyAll(vis, events) ==
    IF events = <<>> THEN vis
    ELSE ApplyAll(ApplyVis(vis, Head(events)), Tail(events))

\* ---- sections ------------------------------------------------------------
\* NewSection with (AwaitClear, OnClear) inserted at spawn time
NewSectionArmed(event) ==
    [alive      |-> TRUE,
     textbox    |-> event.textbox,
     end        |-> event.end,
     scroll     |-> "revealing",
     awaitClear |-> TRUE,
     ranA       |-> 0,
     ranB       |-> 0]

\* NewSection without OnScrollEnd(on_end): the reveal engine has nothing to run
NewSectionNoScrollEnd(event) ==
    [alive      |-> TRUE,
     textbox    |-> event.textbox,
     end        |-> event.end,
     scroll     |-> "ended",
     awaitClear |-> FALSE,
     ranA       |-> 0,
     ranB       |-> 0]

\* the entity as spawn_section_frags leaves it, with what on_end captured
NewSection(event) ==
    [alive      |-> TRUE,
     textbox    |-> event.textbox,
     end        |-> event.end,
     scroll     |-> "revealing",
     awaitClear |-> FALSE,
     ranA       |-> 0,
     ranB       |-> 0]

\* SpawnOne with `if let Ok(..)` in place of unwrap(): the fragment is dropped
SpawnOneSkip(st, event) ==
    IF event.textbox \notin textboxes
    THEN st
    ELSE LET e == SectionEntity(Len(st.sec) + 1) IN
         [sec      |-> Append(st.sec, NewSection(event)),
          children |-> [st.children EXCEPT ![event.textbox] = Append(@, e)],
          aborted  |-> FALSE]

\* SpawnOne without commands.entity(textbox).add_child(child)
SpawnOneNoChild(st, event) ==
    IF event.textbox \notin textboxes
    THEN [st EXCEPT !.aborted = TRUE]
    ELSE [sec      |-> Append(st.sec, NewSection(event)),
          children |-> st.children,
          aborted  |-> FALSE]

\* one iteration of the reader loop of spawn_section_frags
SpawnOne(st, event) ==
    IF event.textbox \notin textboxes
    THEN [st EXCEPT !.aborted = TRUE]
    ELSE LET e == SectionEntity(Len(st.sec) + 1) IN
         [sec      |-> Append(st.sec, NewSection(event)),
          children |-> [st.children EXCEPT ![event.textbox] = Append(@, e)],
          aborted  |-> FALSE]

\* SpawnAll reading one event per run and losing the rest
SpawnFirstOnly(st, events) ==
    IF events = <<>> THEN st ELSE SpawnOne(st, Head(events))

\* the reader loop of spawn_section_frags over the unread events
RECURSIVE SpawnAll(_, _)
SpawnAll(st, events) ==
    IF events = <<>> \/ st.aborted THEN st
    ELSE SpawnAll(SpawnOne(st, Head(events)), Tail(events))

\* Despawn that leaves the entity in its parent's Children
DespawnKeepChild(ch, e) == ch

\* commands.entity(entity).despawn(): gone from the world and from Children
Despawn(ch, e) == [t \in DOMAIN ch |-> Without(ch[t], e)]

\* HandlerA writing Visibility::Hidden
HandlerAHidden(i) ==
    [visEvents |-> Append(visEvents, UpdateContinueVis(sec[i].textbox, "Hidden")),
     sec       |-> IF sec[i].alive
                   THEN [sec EXCEPT ![i].awaitClear = TRUE, ![i].ranA = @ + 1]
                   ELSE [sec EXCEPT ![i].ranA = @ + 1],
     aborted   |-> ~sec[i].alive]

\* HandlerA despawning the section once it is revealed
HandlerADespawns(i) ==
    [visEvents |-> Append(visEvents, UpdateContinueVis(sec[i].textbox, "Visible")),
     sec       |-> [sec EXCEPT ![i].alive = FALSE, ![i].ranA = @ + 1],
     aborted   |-> ~sec[i].alive]

\* the world after the on_end system registered for section i has run and
\* its commands are applied: the Visible request is written, and the insert of
\* (AwaitClear, OnClear(id)) panics if the entity is gone
HandlerA(i) ==
    [visEvents |-> Append(visEvents, UpdateContinueVis(sec[i].textbox, "Visible")),
     sec       |-> IF sec[i].alive
                   THEN [sec EXCEPT ![i].awaitClear = TRUE, ![i].ranA = @ + 1]
                   ELSE [sec EXCEPT ![i].ranA = @ + 1],
     aborted   |-> ~sec[i].alive]

\* HandlerB without frag_writer.write(end)
HandlerBNoToken(i) ==
    [endEvents |-> endEvents,
     sec       |-> [sec EXCEPT ![i].alive = FALSE, ![i].awaitClear = FALSE,
                               ![i].ranB = @ + 1],
     children  |-> Despawn(children, SectionEntity(i)),
     visEvents |-> Append(visEvents, UpdateContinueVis(sec[i].textbox, "Hidden"))]

\* HandlerB without the Hidden request
HandlerBNoHide(i) ==
    [endEvents |-> Append(endEvents, sec[i].end),
     sec       |-> [sec EXCEPT ![i].alive = FALSE, ![i].awaitClear = FALSE,
                               ![i].ranB = @ + 1],
     children  |-> Despawn(children, SectionEntity(i)),
     visEvents |-> visEvents]

\* HandlerB despawning every section of the textbox
HandlerBClearsSiblings(i) ==
    [endEvents |-> Append(endEvents, sec[i].end),
     sec       |-> [j \in DOMAIN sec |->
                      IF sec[j].textbox = sec[i].textbox
                      THEN [sec[j] EXCEPT !.alive = FALSE, !.awaitClear = FALSE,
                                          !.ranB = IF j = i THEN @ + 1 ELSE @]
                      ELSE sec[j]],
     children  |-> [t \in DOMAIN children |->
                      IF t = sec[i].textbox
                      THEN SelectSeq(children[t], LAMBDA e : e <= SectionBase)
                      ELSE children[t]],
     visEvents |-> Append(visEvents, UpdateContinueVis(sec[i].textbox, "Hidden"))]

\* the world after the system that on_end registered and stored in OnClear
\* has run and its commands are applied
HandlerB(i) ==
    [endEvents |-> Append(endEvents, sec[i].end),
     sec       |-> [sec EXCEPT ![i].alive = FALSE, ![i].awaitClear = FALSE,
                               ![i].ranB = @ + 1],
     children  |-> Despawn(children, SectionEntity(i)),
     visEvents |-> Append(visEvents, UpdateContinueVis(sec[i].textbox, "Hidden"))]

\* ---- initial state -------------------------------------------------------
\* how many Continue children the host gave each textbox: textbox 1 any number,
\* textbox 2 the single one of the crate's example
IndicatorCounts == {n \in [TextboxIds -> 0..MaxIndicators] : n[2] = 1}

Init ==
    /\ textboxes = TextboxIds
    /\ \E n \in IndicatorCounts :
         /\ children = [t \in TextboxIds |-> [k \in 1..n[t] |-> ContinueEntity(t, k)]]
         /\ visibility = [c \in UNION {{ContinueEntity(t, k) : k \in 1..n[t]} : t \in TextboxIds}
                            |-> "Hidden"]
    /\ sec = <<>>
    /\ numFrags = 0
    /\ fragEvents = <<>>
    /\ visEvents = <<>>
    /\ endEvents = <<>>
    /\ hostSent = 0
    /\ aborted = FALSE
    /\ last = Step("init", 0, <<>>, <<>>)

\* ---- actions -------------------------------------------------------------
\* the sequencer hands the next fragment to the textbox core
SequencerEmit(t) ==
    /\ ~aborted
    /\ numFrags < MaxFragments
    /\ numFrags' = numFrags + 1
    /\ fragEvents' = Append(fragEvents, [textbox |-> t, end |-> numFrags + 1])
    /\ last' = Step("emit", 0, <<>>, <<>>)
    /\ UNCHANGED <<textboxes, children, visibility, sec, visEvents, endEvents,
                   hostSent, aborted>>

\* the system spawn_section_frags, with its commands applied
SpawnSectionFrags ==
    /\ ~aborted
    /\ fragEvents # <<>>
    /\ LET st == SpawnAll([sec |-> sec, children |-> children, aborted |-> FALSE],
                          fragEvents) IN
       IF st.aborted
       THEN /\ aborted' = TRUE
            /\ UNCHANGED <<sec, children, fragEvents>>
       ELSE /\ sec' = st.sec
            /\ children' = st.children
            /\ fragEvents' = <<>>
            /\ aborted' = FALSE
    /\ last' = Step("spawn", 0, fragEvents, <<>>)
    /\ UNCHANGED <<textboxes, visibility, numFrags, visEvents, endEvents, hostSent>>

\* the reveal engine finds section i fully revealed and runs OnScrollEnd
ScrollEnd(i) ==
    /\ ~aborted
    /\ i \in DOMAIN sec
    /\ sec[i].alive
    /\ sec[i].scroll = "revealing"
    /\ LET w == HandlerA(i) IN
         /\ sec' = [w.sec EXCEPT ![i].scroll = "ended"]
         /\ visEvents' = w.visEvents
         /\ aborted' = w.aborted
    /\ last' = Step("scroll", i, <<>>, <<>>)
    /\ UNCHANGED <<textboxes, children, visibility, numFrags, fragEvents,
                   endEvents, hostSent>>

\* the clear signal arrives for section i, which carries AwaitClear: OnClear runs
ClearSignal(i) ==
    /\ ~aborted
    /\ i \in DOMAIN sec
    /\ sec[i].alive
    /\ sec[i].awaitClear
    /\ LET w == HandlerB(i) IN
         /\ endEvents' = w.endEvents
         /\ sec' = w.sec
         /\ children' = w.children
         /\ visEvents' = w.visEvents
    /\ last' = Step("clear", i, <<>>, <<>>)
    /\ UNCHANGED <<textboxes, visibility, numFrags, fragEvents, hostSent, aborted>>

\* the system update_continue_visibility
UpdateContinueVisibility ==
    /\ ~aborted
    /\ visEvents # <<>>
    /\ visibility' = ApplyAll(visibility, visEvents)
    /\ visEvents' = <<>>
    /\ last' = Step("vis", 0, <<>>, visEvents)
    /\ UNCHANGED <<textboxes, children, sec, numFrags, fragEvents, endEvents,
                   hostSent, aborted>>

\* the host application writes a visibility request of its own
HostRequest(t, v) ==
    /\ ~aborted
    /\ hostSent < MaxHostRequests
    /\ hostSent' = hostSent + 1
    /\ visEvents' = Append(visEvents, UpdateContinueVis(t, v))
    /\ last' = Step("host", 0, <<>>, <<>>)
    /\ UNCHANGED <<textboxes, children, visibility, sec, numFrags, fragEvents,
                   endEvents, aborted>>

\* ---- specifications ------------------------------------------------------
Next ==
    \/ \E t \in EntityRefs : SequencerEmit(t)
    \/ SpawnSectionFrags
    \/ \E i \in 1..MaxFragments : ScrollEnd(i)
    \/ \E i \in 1..MaxFragments : ClearSignal(i)
    \/ UpdateContinueVisibility

Spec == Init /\ [][Next]_vars

NextHost ==
    \/ \E t \in TextboxIds : numFrags = 0 /\ SequencerEmit(t)
    \/ SpawnSectionFrags
    \/ \E i \in 1..MaxFragments : ScrollEnd(i)
    \/ \E i \in 1..MaxFragments : ClearSignal(i)
    \/ UpdateContinueVisibility
    \/ \E t \in TextboxIds, v \in Visibility : HostRequest(t, v)

SpecHost == Init /\ [][NextHost]_vars

\* ---- teardown by the host application ------------------------------------
\* commands.entity(textbox).despawn_recursive() as in the crate example: the
\* textbox goes with all its children, Continue children and sections alike
DespawnTextbox(t) ==
    [textboxes  |-> textboxes \ {t},
     children   |-> [children EXCEPT ![t] = <<>>],
     visibility |-> [c \in DOMAIN visibility \ Range(children[t]) |-> visibility[c]],
     sec        |-> [i \in DOMAIN sec |->
                       IF SectionEntity(i) \in Range(children[t])
                       THEN [sec[i] EXCEPT !.alive = FALSE, !.awaitClear = FALSE]
                       ELSE sec[i]]]

\* the host despawns section i before its handlers have run to the end
HostDespawnSection(i) ==
    /\ ~aborted
    /\ i \in DOMAIN sec
    /\ sec[i].alive
    /\ sec' = [sec EXCEPT ![i].alive = FALSE, ![i].awaitClear = FALSE]
    /\ children' = Despawn(children, SectionEntity(i))
    /\ last' = Step("despawnSection", i, <<>>, <<>>)
    /\ UNCHANGED <<textboxes, visibility, numFrags, fragEvents, visEvents,
                   endEvents, hostSent, aborted>>

\* the host despawns textbox t
HostDespawnTextbox(t) ==
    /\ ~aborted
    /\ t \in textboxes
    /\ LET w == DespawnTextbox(t) IN
         /\ textboxes' = w.textboxes
         /\ children' = w.children
         /\ visibility' = w.visibility
         /\ sec' = w.sec
    /\ last' = Step("despawnTextbox", t, <<>>, <<>>)
    /\ UNCHANGED <<numFrags, fragEvents, visEvents, endEvents, hostSent, aborted>>

\* the run of on_end that the reveal engine queued for section i is applied
\* after the section was despawned
StaleScrollEnd(i) ==
    /\ ~aborted
    /\ i \in DOMAIN sec
    /\ ~sec[i].alive
    /\ sec[i].scroll = "revealing"
    /\ LET w == HandlerA(i) IN
         /\ sec' = [w.sec EXCEPT ![i].scroll = "ended"]
         /\ visEvents' = w.visEvents
         /\ aborted' = w.aborted
    /\ last' = Step("staleScroll", i, <<>>, <<>>)
    /\ UNCHANGED <<textboxes, children, visibility, numFrags, fragEvents,
                   endEvents, hostSent>>

\* the run of the clear system that was queued for section i, awaiting clear,
\* is applied after the section was despawned
StaleClear(i) ==
    /\ ~aborted
    /\ i \in DOMAIN sec
    /\ ~sec[i].alive
    /\ sec[i].ranA > 0
    /\ sec[i].ranB = 0
    /\ LET w == HandlerB(i) IN
         /\ endEvents' = w.endEvents
         /\ sec' = w.sec
         /\ children' = w.children
         /\ visEvents' = w.visEvents
    /\ last' = Step("staleClear", i, <<>>, <<>>)
    /\ UNCHANGED <<textboxes, visibility, numFrags, fragEvents, hostSent, aborted>>

NextTeardown ==
    \/ \E t \in TextboxIds : SequencerEmit(t)
    \/ SpawnSectionFrags
    \/ \E i \in 1..MaxFragments : ScrollEnd(i)
    \/ \E i \in 1..MaxFragments : ClearSignal(i)
    \/ UpdateContinueVisibility
    \/ \E i \in 1..MaxFragments : HostDespawnSection(i)
    \/ \E t \in TextboxIds : HostDespawnTextbox(t)
    \/ \E i \in 1..MaxFragments : StaleScrollEnd(i)
    \/ \E i \in 1..MaxFragments : StaleClear(i)

SpecTeardown == Init /\ [][NextTeardown]_vars

\* ---- repeated delivery -----------------------------------------------------
\* a SystemId stays registered after its system has run: the scroll-end
\* trigger of section i is delivered once more while the section is alive
RedeliverScrollEnd(i) ==
    /\ ~aborted
    /\ i \in DOMAIN sec
    /\ sec[i].alive
    /\ sec[i].ranA >= 1
    /\ sec[i].ranA < MaxDeliveries
    /\ LET w == HandlerA(i) IN
         /\ sec' = w.sec
         /\ visEvents' = w.visEvents
         /\ aborted' = w.aborted
    /\ last' = Step("reScroll", i, <<>>, <<>>)
    /\ UNCHANGED <<textboxes, children, visibility, numFrags, fragEvents,
                   endEvents, hostSent>>

\* the clear signal of section i is delivered once more: the system stored in
\* OnClear runs again, after the run that despawned the section
RedeliverClear(i) ==
    /\ ~aborted
    /\ i \in DOMAIN sec
    /\ sec[i].ranB >= 1
    /\ sec[i].ranB < MaxDeliveries
    /\ LET w == HandlerB(i) IN
         /\ endEvents' = w.endEvents
         /\ sec' = w.sec
         /\ children' = w.children
         /\ visEvents' = w.visEvents
    /\ last' = Step("reClear", i, <<>>, <<>>)
    /\ UNCHANGED <<textboxes, visibility, numFrags, fragEvents, hostSent, aborted>>

NextRedeliver ==
    \/ \E t \in TextboxIds : SequencerEmit(t)
    \/ SpawnSectionFrags
    \/ \E i \in 1..MaxFragments : ScrollEnd(i)
    \/ \E i \in 1..MaxFragments : ClearSignal(i)
    \/ UpdateContinueVisibility
    \/ \E i \in 1..MaxFragments : RedeliverScrollEnd(i)
    \/ \E i \in 1..MaxFragments : RedeliverClear(i)

SpecRedeliver == Init /\ [][NextRedeliver]_vars

\* ---- fragment intake -------------------------------------------------------
\* authored content: &'static str, String or TypeWriterSection
Texts == {"hello", "world"}
TypeWriterSection(text) == [text |-> text]
ContentKinds == {"str", "string", "section"}
Contents(kind) ==
    IF kind = "section" THEN {TypeWriterSection(x) : x \in Texts} ELSE Texts

\* into_fragment with the textbox taken from somewhere else than the context
IntoFragmentPlaceholder(kind, content, context) ==
    [textbox |-> Dangling,
     section |-> IF kind = "section" THEN content ELSE TypeWriterSection(content)]

\* impl_into_frag!: the SectionFrag that into_fragment wraps in a DataLeaf;
\* $into is slf.into() for the two text kinds and slf for TypeWriterSection
IntoFragment(kind, content, context) ==
    [textbox |-> context,
     section |-> IF kind = "section" THEN content ELSE TypeWriterSection(content)]

\* content is authored under a TextBoxEntity context; the fragment goes to the
\* sequencer, which hands it out as a FragmentEvent with its completion token
Intake(kind, content, context) ==
    /\ ~aborted
    /\ numFrags < MaxFragments
    /\ numFrags' = numFrags + 1
    /\ LET frag == IntoFragment(kind, content, context) IN
         fragEvents' = Append(fragEvents,
                              [textbox |-> frag.textbox, section |-> frag.section,
                               end |-> numFrags + 1])
    /\ last' = Step("intake", 0,
                    <<[kind |-> kind, content |-> content, context |-> context]>>, <<>>)
    /\ UNCHANGED <<textboxes, children, visibility, sec, visEvents, endEvents,
                   hostSent, aborted>>

NextIntake ==
    \/ \E kind \in ContentKinds, context \in EntityRefs :
          \E content \in Contents(kind) : Intake(kind, content, context)
    \/ SpawnSectionFrags

SpecIntake == Init /\ [][NextIntake]_vars

\* ---- fair scheduling -------------------------------------------------------
\* the Update schedule keeps running both systems, the reveal engine fires
\* the scroll end of every live section and the clear signal arrives for
\* every section awaiting clear
Fairness ==
    /\ WF_vars(SpawnSectionFrags)
    /\ WF_vars(UpdateContinueVisibility)
    /\ \A i \in 1..MaxFragments : WF_vars(ScrollEnd(i))
    /\ \A i \in 1..MaxFragments : WF_vars(ClearSignal(i))

SpecFair == Init /\ [][Next]_vars /\ Fairness

\* ---- vocabulary of the properties ----------------------------------------
\* the children of textbox t that carry Continue
Indicators(t) == Range(children[t]) \cap DOMAIN visibility

\* the sections spawned for fragments of textbox t
SectionsOf(s, t) == {i \in DOMAIN s : s[i].textbox = t}

\* stage 1 (Handler A) done, stage 2 (Handler B) not yet
InGap(i) == sec[i].ranA > 0 /\ sec[i].ranB = 0

\* the positions of the requests of queue q that address textbox t
RequestsFor(q, t) == {k \in DOMAIN q : q[k].entity = t}
EventsFor(q, t) == {k \in DOMAIN q : q[k].textbox = t}

Drained == fragEvents = <<>> /\ visEvents = <<>>

\* every Continue child of textbox t has visibility v
AllIndicators(t, v) == \A c \in Indicators(t) : visibility[c] = v

\* the visibilities the reader loop holds before it reads visEvents[k]
Pre(k) == ApplyAll(visibility, SubSeq(visEvents, 1, k - 1))

\* queue q with its k-th request delivered twice in a row
Dup(q, k) == SubSeq(q, 1, k) \o SubSeq(q, k, Len(q))

Latest(ks) == CHOOSE k \in ks : \A j \in ks : j <= k

\* a step of spawn_section_frags that read its events to the end
SpawnStep == fragEvents # <<>> /\ fragEvents' = <<>>
\* a step of update_continue_visibility
VisStep == visEvents # <<>> /\ visEvents' = <<>>

\* ---- C1 ------------------------------------------------------------------
\* C1: once every queue is drained, each Continue child of a textbox is
\* Visible exactly when some section of that textbox is between Handler A and
\* Handler B, and Hidden otherwise, for any number of sections in flight.
C1_IndicatorIffInGap ==
    Drained =>
        \A t \in textboxes : \A c \in Indicators(t) :
            visibility[c] = IF \E i \in SectionsOf(sec, t) : InGap(i)
                            THEN "Visible" ELSE "Hidden"

\* ---- C2 ------------------------------------------------------------------
\* C2: a section carries AwaitClear/OnClear, or has had Handler B run, only
\* if Handler A has run for it before.
C2_ClearOnlyAfterScrollEnd ==
    \A i \in DOMAIN sec :
        (sec[i].awaitClear \/ sec[i].ranB > 0) => sec[i].ranA > 0

C2_Witness ==
    \E i \in DOMAIN sec : sec[i].ranB > 0 /\ sec[i].ranA > 0 /\ last.op = "clear"

\* ---- C3 ------------------------------------------------------------------
\* C3: FragmentEndEvent changes only in a step in which Handler B runs for a
\* section, and that step appends exactly the token of that section's
\* fragment, which was never written before.
C3_TokenOnceWithHandlerB ==
    [][ \/ /\ endEvents' = endEvents
           /\ \A i \in DOMAIN sec : sec'[i].ranB = sec[i].ranB
        \/ \E i \in DOMAIN sec :
              /\ sec'[i].ranB = sec[i].ranB + 1
              /\ sec[i].ranA > 0
              /\ endEvents' = Append(endEvents, sec[i].end)
              /\ CountOf(endEvents, sec[i].end) = 0 ]_vars

C3_Witness ==
    /\ last.op = "clear"
    /\ endEvents # <<>>
    /\ endEvents[Len(endEvents)] = sec[last.sec].end

\* ---- C4 ------------------------------------------------------------------
\* C4: a run of spawn_section_frags adds, for every textbox, exactly as many
\* sections as it read fragment events for that textbox, each alive and
\* exactly once among that textbox's children and no other's; no other step
\* adds a section.
C4_OneSectionPerFragmentEvent ==
    [][ IF SpawnStep
        THEN \A t \in textboxes :
               /\ Cardinality(SectionsOf(sec', t))
                    = Cardinality(SectionsOf(sec, t)) + Cardinality(EventsFor(fragEvents, t))
               /\ \A i \in SectionsOf(sec', t) \ SectionsOf(sec, t) :
                    /\ sec'[i].alive
                    /\ CountOf(children'[t], SectionEntity(i)) = 1
                    /\ \A u \in TextboxIds \ {t} :
                         CountOf(children'[u], SectionEntity(i)) = 0
        ELSE Len(sec') = Len(sec) ]_vars

C4_Witness ==
    /\ last.op = "spawn"
    /\ ~aborted
    /\ \E t \in textboxes :
         /\ Cardinality(EventsFor(last.frags, t)) >= 2
         /\ Cardinality(SectionsOf(sec, t)) >= 2

\* ---- C5 ------------------------------------------------------------------
\* C5: once Handler B has run for a section, the section entity does not
\* exist and is among no textbox's children.
C5_ClearedSectionIsGone ==
    \A i \in DOMAIN sec :
        sec[i].ranB > 0 =>
            /\ ~sec[i].alive
            /\ \A t \in TextboxIds : SectionEntity(i) \notin Range(children[t])

C5_Witness ==
    \E i \in DOMAIN sec :
        /\ sec[i].ranB > 0
        /\ last.op \in {"vis", "spawn", "scroll"}

\* ---- C6 ------------------------------------------------------------------
\* C6: for a textbox with a Continue child and a single section: before the
\* scroll end the section is a live child, not awaiting clear, and the
\* indicator is Hidden; between scroll end and clear signal the section is
\* alive and awaiting clear, no token is out, and the indicator is Visible
\* once the requests for the textbox are read and stays Visible; after the
\* clear signal the token is out once, the section is gone, and the indicator
\* is Hidden once the requests are read.
C6_Protocol(t) ==
    LET i == CHOOSE j \in SectionsOf(sec, t) : TRUE
        e == SectionEntity(i)
        read == RequestsFor(visEvents, t) = {}
    IN /\ sec[i].ranA = 0 =>
            /\ sec[i].alive /\ e \in Range(children[t]) /\ ~sec[i].awaitClear
            /\ CountOf(endEvents, sec[i].end) = 0
            /\ AllIndicators(t, "Hidden")
       /\ InGap(i) =>
            /\ sec[i].alive /\ e \in Range(children[t]) /\ sec[i].awaitClear
            /\ CountOf(endEvents, sec[i].end) = 0
            /\ read => AllIndicators(t, "Visible")
       /\ sec[i].ranB > 0 =>
            /\ ~sec[i].alive /\ e \notin Range(children[t])
            /\ CountOf(endEvents, sec[i].end) = 1
            /\ read => AllIndicators(t, "Hidden")

C6_Single(t) == Indicators(t) # {} /\ Cardinality(SectionsOf(sec, t)) = 1

C6_EndToEnd ==
    /\ [](\A t \in textboxes : C6_Single(t) => C6_Protocol(t))
    /\ [][\A t \in textboxes :
            ( /\ C6_Single(t) /\ C6_Single(t)'
              /\ \E i \in SectionsOf(sec, t) : InGap(i) /\ InGap(i)'
              /\ AllIndicators(t, "Visible") )
            => AllIndicators(t, "Visible")']_vars

C6_Witness ==
    \E t \in textboxes :
        /\ C6_Single(t)
        /\ \E i \in SectionsOf(sec, t) : sec[i].ranB > 0
        /\ RequestsFor(visEvents, t) = {}
        /\ AllIndicators(t, "Hidden")
        /\ endEvents # <<>>
        /\ last.op = "vis"

\* ---- C7 ------------------------------------------------------------------
\* C7: in a run of update_continue_visibility, right after the loop has
\* handled a request (t, v) for an existing textbox t, every Continue child
\* of t has visibility v, however many there are and whatever else t has as
\* children; so after the run they all have the v of the last request read.
C7_Broadcast ==
    [][VisStep =>
         /\ \A k \in DOMAIN visEvents :
              LET ev == visEvents[k]
                  after == ApplyVis(Pre(k), ev)
              IN ev.entity \in textboxes =>
                   \A c \in Indicators(ev.entity) : after[c] = ev.visibility
         /\ LET ev == visEvents[Len(visEvents)]
            IN ev.entity \in textboxes =>
                 \A c \in Indicators(ev.entity) : visibility'[c] = ev.visibility
       ]_vars

C7_Witness ==
    /\ last.op = "vis"
    /\ LET ev == last.reqs[Len(last.reqs)]
       IN /\ ev.entity \in textboxes
          /\ Cardinality(Indicators(ev.entity)) >= 2
          /\ \E i \in SectionsOf(sec, ev.entity) :
                SectionEntity(i) \in Range(children[ev.entity])
          /\ ev.visibility = "Visible"
          /\ AllIndicators(ev.entity, "Visible")

\* ---- C8 ------------------------------------------------------------------
\* C8: a run of update_continue_visibility leaves the Continue children of
\* every textbox with the visibility of the last request of the queue that
\* addresses the textbox (untouched if there is none), and delivering any
\* request of the queue twice in a row gives the same result.
C8_LastWriteWins ==
    [][VisStep =>
         /\ \A t \in textboxes : \A c \in Indicators(t) :
              visibility'[c] =
                 IF RequestsFor(visEvents, t) = {} THEN visibility[c]
                 ELSE visEvents[Latest(RequestsFor(visEvents, t))].visibility
         /\ \A k \in DOMAIN visEvents :
              ApplyAll(visibility, Dup(visEvents, k)) = visibility'
       ]_vars

C8_Witness ==
    /\ last.op = "vis"
    /\ \E t \in textboxes :
         /\ Indicators(t) # {}
         /\ \E j, k \in RequestsFor(last.reqs, t) :
              /\ j < k
              /\ k = Latest(RequestsFor(last.reqs, t))
              /\ last.reqs[j].visibility = "Visible"
              /\ last.reqs[k].visibility = "Hidden"
         /\ AllIndicators(t, "Hidden")

\* ---- C9 ------------------------------------------------------------------
\* C9: a run of update_continue_visibility never panics and spawns, despawns
\* or reparents nothing, and a request that addresses a textbox without a
\* Continue child leaves every visibility as it was.
C9_NoIndicatorNoOp ==
    [][VisStep =>
         /\ ~aborted'
         /\ UNCHANGED <<textboxes, children, sec>>
         /\ DOMAIN visibility' = DOMAIN visibility
         /\ \A k \in DOMAIN visEvents :
              LET ev == visEvents[k]
              IN (ev.entity \in textboxes /\ Indicators(ev.entity) = {})
                   => ApplyVis(Pre(k), ev) = Pre(k)
         /\ (\A k \in DOMAIN visEvents :
               visEvents[k].entity \in textboxes /\ Indicators(visEvents[k].entity) = {})
              => visibility' = visibility
       ]_vars

C9_Witness ==
    /\ last.op = "vis"
    /\ ~aborted
    /\ \E k \in DOMAIN last.reqs :
         LET t == last.reqs[k].entity
         IN /\ t \in textboxes
            /\ Indicators(t) = {}
            /\ children[t] # <<>>

\* ---- C10 -----------------------------------------------------------------
\* C10: a run of spawn_section_frags that reads a fragment event whose textbox
\* is no TextBox entity panics and leaves no section behind; no section is
\* ever spawned for a textbox reference that names no TextBox.
C10_DanglingTextboxIsFatal ==
    /\ [](\A i \in DOMAIN sec : sec[i].textbox \in TextboxIds)
    /\ [][( /\ last'.op = "spawn"
            /\ \E k \in DOMAIN fragEvents : fragEvents[k].textbox \notin textboxes )
          => (aborted' /\ sec' = sec /\ children' = children)]_vars

C10_Witness ==
    /\ aborted
    /\ last.op = "spawn"
    /\ Len(last.frags) >= 2
    /\ last.frags[1].textbox \in textboxes
    /\ last.frags[2].textbox \notin textboxes
    /\ sec = <<>>

\* ---- C11 -----------------------------------------------------------------
\* C11: a handler that runs after its section or its textbox was despawned
\* does not panic, and a visibility request that addresses a textbox that is
\* gone leaves every visibility as it was.
C11_StaleReferenceIsNoOp ==
    /\ last.op \in {"staleScroll", "staleClear"} => ~aborted
    /\ \A k \in DOMAIN visEvents :
         visEvents[k].entity \notin textboxes
            => ApplyVis(Pre(k), visEvents[k]) = Pre(k)

\* ---- C12 -----------------------------------------------------------------
\* C12: a second delivery of the scroll-end trigger or of the clear signal
\* for a section registers no further clear system, writes no further
\* visibility request and no further completion token.
ClearSystems(i) == sec[i].ranA

C12_SecondDeliveryHasNoEffect ==
    [][last'.op \in {"reScroll", "reClear"} =>
         /\ visEvents' = visEvents
         /\ endEvents' = endEvents
         /\ \A i \in DOMAIN sec : ClearSystems(i)' = ClearSystems(i)
         /\ \A i \in DOMAIN sec : CountOf(endEvents', sec[i].end) <= 1
      ]_vars

\* ---- C13 -----------------------------------------------------------------
\* C13: for each of the three content kinds and every context, intake is
\* possible and does not panic, and the fragment it hands on names the
\* textbox of the context and carries a section with the authored text (the
\* authored section itself when a TypeWriterSection was given).
C13_TextOf(in) == IF in.kind = "section" THEN in.content.text ELSE in.content

C14_SectionHasOneParent ==
    /\ [](\A i \in DOMAIN sec :
            sec[i].alive =>
               /\ sec[i].textbox \in textboxes
               /\ \A t \in TextboxIds :
                    CountOf(children[t], SectionEntity(i))
                       = IF t = sec[i].textbox THEN 1 ELSE 0)
    /\ [][\A i \in DOMAIN sec : sec'[i].textbox = sec[i].textbox]_vars

C14_Witness ==
    \E i, j \in DOMAIN sec :
        /\ sec[i].alive /\ sec[j].alive
        /\ sec[i].textbox # sec[j].textbox
        /\ sec[i].ranA > 0
        /\ last.op = "vis"

\* ---- C15 -----------------------------------------------------------------
\* C15: a run of Handler A writes exactly one request, Visible for the
\* section's textbox; a run of Handler B writes exactly one request, Hidden
\* for the section's textbox, and comes after the section's Handler A; no
\* other step of the core writes a visibility request.
C15_RanA(i) == sec'[i].ranA = sec[i].ranA + 1
C15_RanB(i) == sec'[i].ranB = sec[i].ranB + 1

C15_ShowThenHide ==
    [][ /\ \A i \in DOMAIN sec :
             C15_RanA(i) =>
                visEvents' = Append(visEvents, UpdateContinueVis(sec[i].textbox, "Visible"))
        /\ \A i \in DOMAIN sec :
             C15_RanB(i) =>
                /\ visEvents' = Append(visEvents, UpdateContinueVis(sec[i].textbox, "Hidden"))
                /\ sec[i].ranA > 0
        /\ (\A i \in DOMAIN sec : ~C15_RanA(i) /\ ~C15_RanB(i)) =>
              (visEvents' = visEvents \/ visEvents' = <<>>)
        /\ \A i \in DOMAIN sec' \ DOMAIN sec : sec'[i].ranA = 0 /\ sec'[i].ranB = 0
      ]_vars

C15_Witness ==
    /\ last.op = "clear"
    /\ Len(visEvents) = 2
    /\ visEvents[1] = UpdateContinueVis(sec[last.sec].textbox, "Visible")
    /\ visEvents[2] = UpdateContinueVis(sec[last.sec].textbox, "Hidden")

\* ---- C16 -----------------------------------------------------------------
\* C16: a section stops existing only in a step in which its Handler B runs;
\* as long as a section is between Handler A and Handler B it is alive, a
\* child of its textbox and awaiting clear, and its token is not written; a
\* Hidden request is written only by a run of Handler B of a section of the
\* addressed textbox.
C16_DespawnOnlyInHandlerB ==
    /\ [](\A i \in DOMAIN sec :
            InGap(i) =>
               /\ sec[i].alive /\ sec[i].awaitClear
               /\ SectionEntity(i) \in Range(children[sec[i].textbox])
               /\ CountOf(endEvents, sec[i].end) = 0)
    /\ [][ /\ \A i \in DOMAIN sec :
                (sec[i].alive /\ ~sec'[i].alive) => sec'[i].ranB = sec[i].ranB + 1
           /\ ( /\ Len(visEvents') = Len(visEvents) + 1
                /\ visEvents'[Len(visEvents')].visibility = "Hidden" )
              => \E i \in DOMAIN sec :
                    /\ sec'[i].ranB = sec[i].ranB + 1
                    /\ sec[i].textbox = visEvents'[Len(visEvents')].entity
         ]_vars

C16_Witness ==
    \E i, j \in DOMAIN sec :
        /\ InGap(i) /\ sec[i].alive /\ sec[i].awaitClear
        /\ sec[j].ranB > 0
        /\ sec[j].textbox = sec[i].textbox
        /\ Drained
        /\ last.op = "vis"

\* ---- C17 -----------------------------------------------------------------
\* C17: under fair scheduling, unless the app panics, every section that is
\* spawned is eventually despawned with its completion token written.
C17_Done(i) ==
    /\ i \in DOMAIN sec
    /\ ~sec[i].alive
    /\ CountOf(endEvents, sec[i].end) = 1

C17_EverySectionCompletes ==
    \A i \in 1..MaxFragments : (i \in DOMAIN sec) ~> (C17_Done(i) \/ aborted)

C17_Witness ==
    /\ \A i \in 1..MaxFragments : C17_Done(i)
    /\ ~aborted
    /\ last.op = "clear"

\* ---- C18 -----------------------------------------------------------------
\* C18: a run of Handler A or Handler B of section i leaves every other
\* section as it was, with the same place among the children of every
\* textbox; Handler A writes no token and Handler B writes the token of the
\* fragment section i was spawned for.
C18_HandlersBoundToOwnSection ==
    [][\A i \in DOMAIN sec :
         (sec'[i].ranA = sec[i].ranA + 1 \/ sec'[i].ranB = sec[i].ranB + 1) =>
            /\ \A j \in DOMAIN sec \ {i} :
                 /\ sec'[j] = sec[j]
                 /\ \A t \in TextboxIds :
                      CountOf(children'[t], SectionEntity(j))
                         = CountOf(children[t], SectionEntity(j))
            /\ sec'[i].ranA = sec[i].ranA + 1 => endEvents' = endEvents
            /\ sec'[i].ranB = sec[i].ranB + 1 =>
                 /\ endEvents' = Append(endEvents, sec[i].end)
                 /\ sec[i].end = i
      ]_vars

C18_Witness ==
    /\ last.op = "clear"
    /\ \E j \in DOMAIN sec \ {last.sec} :
         /\ sec[j].textbox = sec[last.sec].textbox
         /\ sec[j].alive
         /\ InGap(j)
    /\ endEvents = <<sec[last.sec].end>>

\* ---- C19 -----------------------------------------------------------------
\* C19: in a run of update_continue_visibility a request changes the
\* visibility of no entity but the Continue children of the textbox it
\* addresses; the run leaves untouched every Continue child whose textbox
\* no request addresses, and every section and every Children list.
C19_CoordinatorFrame ==
    [][VisStep =>
         /\ sec' = sec
         /\ children' = children
         /\ \A k \in DOMAIN visEvents :
              LET ev == visEvents[k]
                  before == Pre(k)
                  after == ApplyVis(before, ev)
                  mine == IF ev.entity \in textboxes THEN Indicators(ev.entity) ELSE {}
              IN /\ DOMAIN after = DOMAIN before
                 /\ \A c \in DOMAIN before \ mine : after[c] = before[c]
         /\ \A t \in textboxes :
              RequestsFor(visEvents, t) = {} =>
                 \A c \in Indicators(t) : visibility'[c] = visibility[c]
      ]_vars

C19_Witness ==
    /\ last.op = "vis"
    /\ \E t, u \in textboxes :
         /\ t # u
         /\ RequestsFor(last.reqs, t) # {}
         /\ RequestsFor(last.reqs, u) = {}
         /\ Indicators(t) # {} /\ Indicators(u) # {}
         /\ AllIndicators(t, "Hidden")
         /\ AllIndicators(u, "Visible")
         /\ \E i \in DOMAIN sec : sec[i].alive

====
